---- MODULE Spec2Model ----
(***************************************************************************)
(* Model of the RPN calculator's numeric stack (src/src/stack.rs): the     *)
(* Stack struct, its editing operations, and the keystroke-level state     *)
(* machine that drives them.                                               *)
(***************************************************************************)
EXTENDS Integers, Sequences, FiniteSets, TLC

(* ---------------------------------------------------------------------- *)
(* Bounds of the model                                                     *)
(* ---------------------------------------------------------------------- *)

\* Number of operations applied to a stack after Stack::new().
MaxSteps == 4

\* Largest `count` handed to replace_entries.
MaxCount == 4

(* ---------------------------------------------------------------------- *)
(* Number (crate::number): a tagged value Integer | Rational | Decimal     *)
(* ---------------------------------------------------------------------- *)

Integer(n) == [tag |-> "Integer", num |-> n, den |-> 1]

Rational(n, d) == [tag |-> "Rational", num |-> n, den |-> d]

Decimal(n) == [tag |-> "Decimal", num |-> n, den |-> 1]

\* `-value`: negation keeps the variant and flips the sign of the magnitude.
NumNeg(v) == [v EXCEPT !.num = 0 - v.num]

\* `if let Number::Integer(int) = .. { if int == &0.to_bigint() .. }`
IsIntegerZero(v) == v.tag = "Integer" /\ v.num = 0

(* ---------------------------------------------------------------------- *)
(* Option<T>: None is the empty sequence, Some(x) the one-element sequence *)
(* ---------------------------------------------------------------------- *)

None == <<>>

Some(x) == <<x>>

(* ---------------------------------------------------------------------- *)
(* NumberEditor (crate::edit): the in-progress literal of the top entry    *)
(* ---------------------------------------------------------------------- *)

DigitChars == <<"0", "1", "2", "3", "4", "5", "6", "7", "8", "9">>

IsDigit(ch) == \E i \in 1..Len(DigitChars) : DigitChars[i] = ch

DigitOf(ch) == (CHOOSE i \in 1..Len(DigitChars) : DigitChars[i] = ch) - 1

RECURSIVE DigitsValue(_)
DigitsValue(ds) ==
  IF ds = <<>> THEN 0
  ELSE 10 * DigitsValue(SubSeq(ds, 1, Len(ds) - 1)) + ds[Len(ds)]

RECURSIVE Pow10(_)
Pow10(k) == IF k = 0 THEN 1 ELSE 10 * Pow10(k - 1)

\* NumberEditor::new_decimal()
new_decimal == [mant |-> <<>>, expo |-> <<>>, inExp |-> FALSE, negative |-> FALSE]

\* NumberEditor::number(): the value of the literal typed so far.
editor_number(ed) ==
  LET mag == DigitsValue(ed.mant) * Pow10(DigitsValue(ed.expo))
  IN  Integer(IF ed.negative THEN 0 - mag ELSE mag)

\* NumberEditor::push_char(ch): the new editor and whether a value resulted.
\* A mantissa digit is always taken; the exponent holds a single digit.
editor_push_char(ed, ch) ==
  IF ~IsDigit(ch) THEN [ed |-> ed, ok |-> FALSE]
  ELSE IF ed.inExp
    THEN IF ed.expo = <<>>
           THEN [ed |-> [ed EXCEPT !.expo = <<DigitOf(ch)>>], ok |-> TRUE]
           ELSE [ed |-> ed, ok |-> FALSE]
    ELSE [ed |-> [ed EXCEPT !.mant = Append(ed.mant, DigitOf(ch))], ok |-> TRUE]

\* NumberEditor::exponent(): start typing the exponent.
editor_exponent(ed) == [ed EXCEPT !.inExp = TRUE]

\* NumberEditor::neg(): toggle the sign of the literal.
editor_neg(ed) == [ed EXCEPT !.negative = ~ed.negative]

\* NumberEditor::backspace(): drop the last typed character; ok is FALSE
\* when nothing of the literal remains.
editor_backspace(ed) ==
  LET after ==
        IF ed.inExp /\ ed.expo # <<>> THEN [ed EXCEPT !.expo = <<>>]
        ELSE IF ed.inExp THEN [ed EXCEPT !.inExp = FALSE]
        ELSE IF ed.mant # <<>>
          THEN [ed EXCEPT !.mant = SubSeq(ed.mant, 1, Len(ed.mant) - 1)]
          ELSE ed
  IN  [ed |-> after, ok |-> after.mant # <<>>]

(* ---------------------------------------------------------------------- *)
(* Stack (src/src/stack.rs): a value s has the struct's three fields       *)
(* ---------------------------------------------------------------------- *)

\* Stack::new()
new == [entries |-> <<Integer(0)>>, editor |-> None, push_new_entry |-> FALSE]

\* Stack::len()
len(s) == Len(s.entries)

\* Stack::push(num)
push(s, num) ==
  [entries |-> Append(s.entries, num), editor |-> None, push_new_entry |-> TRUE]

\* Stack::entry(idx): storage position (len - 1) - idx, here 1-based.
entry(s, idx) == s.entries[((Len(s.entries) - 1) - idx) + 1]

\* Stack::top()
top(s) == entry(s, 0)

\* usize arithmetic wraps modulo 2^64 when overflow checks are off; the
\* model's integers are narrower, so a power of two far above every length
\* and index of the model stands for it.
UsizeModulus == 1073741824

\* Outcome of a call: a panic, or the value returned.
Panic(msg) == [panic |-> TRUE, msg |-> msg]

Returned(value) == [panic |-> FALSE, value |-> value]

\* An entry whose index arithmetic saturates at zero: an index past the end
\* silently yields the oldest entry.
entry_call_saturating(s, idx, overflow_checks) ==
  LET diff == (Len(s.entries) - 1) - idx
  IN  Returned(s.entries[(IF diff < 0 THEN 0 ELSE diff) + 1])

\* Stack::entry(idx) as a call with any idx: `(len - 1) - idx` panics on
\* underflow in a build with overflow checks and wraps in one without, and
\* the Vec index panics when the position is not below len.
entry_call(s, idx, overflow_checks) ==
  LET diff == (Len(s.entries) - 1) - idx
  IN  IF diff < 0 /\ overflow_checks
        THEN Panic("attempt to subtract with overflow")
        ELSE LET pos == diff % UsizeModulus
             IN  IF pos >= Len(s.entries)
                   THEN Panic("index out of bounds")
                   ELSE Returned(s.entries[pos + 1])

\* `*self.top_mut() = value`: the write through entry_mut(0).
top_mut_assign(s, value) ==
  [s EXCEPT !.entries[((Len(s.entries) - 1) - 0) + 1] = value]

\* A set_top that forgets to drop the editor.
set_top_keepsEditor(s, num) ==
  [top_mut_assign(s, num) EXCEPT !.push_new_entry = TRUE]

\* Stack::set_top(num)
set_top(s, num) ==
  [top_mut_assign(s, num) EXCEPT !.push_new_entry = TRUE, !.editor = None]

\* A pop that does not put the zero back when the vector empties.
pop_noFloor(s) ==
  [stack  |-> [entries |-> SubSeq(s.entries, 1, Len(s.entries) - 1),
               editor |-> None, push_new_entry |-> TRUE],
   result |-> s.entries[Len(s.entries)]]

\* A pop that hands back the entry that is on top after the call.
pop_returnsNewTop(s) ==
  LET rest == SubSeq(s.entries, 1, Len(s.entries) - 1)
      kept == IF Len(rest) = 0 THEN <<Integer(0)>> ELSE rest
  IN  [stack  |-> [entries |-> kept, editor |-> None, push_new_entry |-> TRUE],
       result |-> kept[Len(kept)]]

\* Stack::pop(): the stack afterwards and the returned Number.
pop(s) ==
  LET result == s.entries[Len(s.entries)]
      rest   == SubSeq(s.entries, 1, Len(s.entries) - 1)
      kept   == IF Len(rest) = 0 THEN Append(rest, Integer(0)) ELSE rest
  IN  [stack  |-> [entries |-> kept, editor |-> None, push_new_entry |-> TRUE],
       result |-> result]

\* `for _ in 1..count { self.pop(); }` with `times` iterations left.
RECURSIVE pop_loop(_, _)
pop_loop(s, times) ==
  IF times <= 0 THEN s ELSE pop_loop(pop(s).stack, times - 1)

\* A replace_entries whose loop runs over 0..count.
replace_entries_popsCount(s, count, num) ==
  [set_top(pop_loop(s, count), num)
     EXCEPT !.push_new_entry = TRUE, !.editor = None]

\* A replace_entries that only overwrites the top.
replace_entries_noPop(s, count, num) ==
  [set_top(s, num) EXCEPT !.push_new_entry = TRUE, !.editor = None]

\* Stack::replace_entries(count, num): the range 1..count has count - 1
\* iterations (none when count is 0 or 1).
replace_entries(s, count, num) ==
  [set_top(pop_loop(s, count - 1), num)
     EXCEPT !.push_new_entry = TRUE, !.editor = None]

\* An enter that is a plain push of the top.
enter_asPush(s) == push(s, top(s))

\* Stack::enter()
enter(s) == [push(s, top(s)) EXCEPT !.push_new_entry = FALSE]

\* A push_char that always opens a new slot.
push_char_alwaysPushes(s, ch) ==
  LET opened ==
        IF s.editor = None
          THEN [push(s, Integer(0))
                  EXCEPT !.editor = Some(new_decimal), !.push_new_entry = FALSE]
          ELSE s
      r == editor_push_char(opened.editor[1], ch)
      fed == [opened EXCEPT !.editor = Some(r.ed)]
  IN  IF r.ok THEN top_mut_assign(fed, editor_number(r.ed)) ELSE fed

\* A push_char that restarts the current slot even when the flag is set.
push_char_neverPushes(s, ch) ==
  LET opened ==
        IF s.editor = None
          THEN [set_top(s, Integer(0))
                  EXCEPT !.editor = Some(new_decimal), !.push_new_entry = FALSE]
          ELSE s
      r == editor_push_char(opened.editor[1], ch)
      fed == [opened EXCEPT !.editor = Some(r.ed)]
  IN  IF r.ok THEN top_mut_assign(fed, editor_number(r.ed)) ELSE fed

\* A push_char that does not clear the flag when it opens the editor.
push_char_keepsFlag(s, ch) ==
  LET opened ==
        IF s.editor = None
          THEN [(IF s.push_new_entry THEN push(s, Integer(0))
                                     ELSE set_top(s, Integer(0)))
                  EXCEPT !.editor = Some(new_decimal)]
          ELSE s
      r == editor_push_char(opened.editor[1], ch)
      fed == [opened EXCEPT !.editor = Some(r.ed)]
  IN  IF r.ok THEN top_mut_assign(fed, editor_number(r.ed)) ELSE fed

\* Stack::push_char(ch)
push_char(s, ch) ==
  LET opened ==
        IF s.editor = None
          THEN [(IF s.push_new_entry THEN push(s, Integer(0))
                                     ELSE set_top(s, Integer(0)))
                  EXCEPT !.editor = Some(new_decimal), !.push_new_entry = FALSE]
          ELSE s
      r == editor_push_char(opened.editor[1], ch)
      fed == [opened EXCEPT !.editor = Some(r.ed)]
  IN  IF r.ok THEN top_mut_assign(fed, editor_number(r.ed)) ELSE fed

\* Stack::exponent()
exponent(s) ==
  IF s.editor # None
    THEN LET ed == editor_exponent(s.editor[1])
         IN  top_mut_assign([s EXCEPT !.editor = Some(ed)], editor_number(ed))
    ELSE s

\* A backspace that leaves the flag set when the editor runs empty.
backspace_keepsFlag(s) ==
  IF s.editor # None
    THEN LET r == editor_backspace(s.editor[1])
         IN  IF r.ok
               THEN top_mut_assign([s EXCEPT !.editor = Some(r.ed)],
                                   editor_number(r.ed))
               ELSE set_top([s EXCEPT !.editor = Some(r.ed)], Integer(0))
    ELSE LET new_entry == Len(s.entries) > 1
             popped    == pop(s).stack
         IN  [popped EXCEPT !.push_new_entry =
                IF IsIntegerZero(top(popped)) THEN FALSE ELSE new_entry]

\* A backspace that clears the flag for a zero of any variant.
backspace_anyZero(s) ==
  IF s.editor # None
    THEN LET r == editor_backspace(s.editor[1])
         IN  IF r.ok
               THEN top_mut_assign([s EXCEPT !.editor = Some(r.ed)],
                                   editor_number(r.ed))
               ELSE [set_top([s EXCEPT !.editor = Some(r.ed)], Integer(0))
                       EXCEPT !.push_new_entry = FALSE]
    ELSE LET new_entry == Len(s.entries) > 1
             popped    == pop(s).stack
         IN  [popped EXCEPT !.push_new_entry =
                IF top(popped).num = 0 THEN FALSE ELSE new_entry]

\* A backspace that, with no editor, recomputes the flag but pops nothing.
backspace_noPop(s) ==
  IF s.editor # None
    THEN LET r == editor_backspace(s.editor[1])
         IN  IF r.ok
               THEN top_mut_assign([s EXCEPT !.editor = Some(r.ed)],
                                   editor_number(r.ed))
               ELSE [set_top([s EXCEPT !.editor = Some(r.ed)], Integer(0))
                       EXCEPT !.push_new_entry = FALSE]
    ELSE [s EXCEPT !.push_new_entry =
            IF IsIntegerZero(top(s)) THEN FALSE ELSE Len(s.entries) > 1]

\* Stack::backspace()
backspace(s) ==
  IF s.editor # None
    THEN LET r == editor_backspace(s.editor[1])
         IN  IF r.ok
               THEN top_mut_assign([s EXCEPT !.editor = Some(r.ed)],
                                   editor_number(r.ed))
               ELSE [set_top([s EXCEPT !.editor = Some(r.ed)], Integer(0))
                       EXCEPT !.push_new_entry = FALSE]
    ELSE LET new_entry == Len(s.entries) > 1
             popped    == pop(s).stack
         IN  [popped EXCEPT !.push_new_entry =
                IF IsIntegerZero(top(popped)) THEN FALSE ELSE new_entry]

\* A neg that forces the top negative instead of flipping its sign.
neg_forcesNegative(s) ==
  IF s.editor # None
    THEN LET ed == editor_neg(s.editor[1])
         IN  top_mut_assign([s EXCEPT !.editor = Some(ed)], editor_number(ed))
    ELSE set_top(s, IF top(s).num > 0 THEN NumNeg(top(s)) ELSE top(s))

\* Stack::neg()
neg(s) ==
  IF s.editor # None
    THEN LET ed == editor_neg(s.editor[1])
         IN  top_mut_assign([s EXCEPT !.editor = Some(ed)], editor_number(ed))
    ELSE set_top(s, NumNeg(top(s)))

(* ---------------------------------------------------------------------- *)
(* Text, NumberFormat (crate::number) and fonts (crate::font)              *)
(* A string is a sequence of one-character strings.                        *)
(* ---------------------------------------------------------------------- *)

RadixGlyphs ==
  <<"0", "1", "2", "3", "4", "5", "6", "7", "8", "9", "A", "B", "C", "D", "E", "F">>

\* The digits of the natural number n in the given radix.
RECURSIVE NatDigits(_, _)
NatDigits(n, radix) ==
  IF n < radix THEN <<RadixGlyphs[n + 1]>>
  ELSE NatDigits(n \div radix, radix) \o <<RadixGlyphs[(n % radix) + 1]>>

Abs(n) == IF n < 0 THEN 0 - n ELSE n

\* BigInt `/`: the quotient truncated toward zero (d > 0).
TruncDiv(n, d) == IF n >= 0 THEN n \div d ELSE 0 - ((0 - n) \div d)

\* NumberFormat::format_bigint
format_bigint(format, n) ==
  (IF n < 0 THEN <<"-">> ELSE <<>>) \o NatDigits(Abs(n), format.integer_radix)

\* Number of digits format_decimal shows after the point.
DecimalPlaces == 2

\* The first `places` digits of rem/den after the point.
RECURSIVE FractionDigits(_, _, _, _)
FractionDigits(rem, den, radix, places) ==
  IF places = 0 \/ rem = 0 THEN <<>>
  ELSE <<RadixGlyphs[((rem * radix) \div den) + 1]>>
         \o FractionDigits((rem * radix) % den, den, radix, places - 1)

\* NumberFormat::format_decimal: sign, integer digits and, when the value is
\* not whole, a point and the leading fraction digits.
format_decimal(format, d) ==
  LET mag == Abs(d.num)
      rem == mag % d.den
  IN  (IF d.num < 0 THEN <<"-">> ELSE <<>>)
        \o NatDigits(mag \div d.den, format.integer_radix)
        \o (IF rem = 0 THEN <<>>
            ELSE <<".">> \o FractionDigits(rem, d.den, format.integer_radix,
                                           DecimalPlaces))

\* Number::to_decimal
to_decimal(v) == [tag |-> "Decimal", num |-> v.num, den |-> v.den]

\* NumberFormat::format_number: an Integer through format_bigint, a Rational
\* and a Decimal through the decimal conversion.
format_number(format, v) ==
  IF v.tag = "Integer" THEN format_bigint(format, v.num)
  ELSE format_decimal(format, to_decimal(v))

\* NumberFormat::hex_format / decimal_format: the same flags, another radix.
hex_format(format) == [format EXCEPT !.integer_radix = 16]

decimal_format(format) == [format EXCEPT !.integer_radix = 10]

\* Number::to_str: the plain decimal text of a Number.
to_str(v) == format_number([integer_radix |-> 10, show_alt_hex |-> FALSE,
                            show_alt_float |-> FALSE], v)

\* NumberEditor::to_str: the literal as typed so far.
editor_to_str(ed, format) ==
  (IF ed.negative THEN <<"-">> ELSE <<>>)
    \o [i \in 1..Len(ed.mant) |-> RadixGlyphs[ed.mant[i] + 1]]
    \o (IF ed.inExp
          THEN <<"e">> \o [i \in 1..Len(ed.expo) |-> RadixGlyphs[ed.expo[i] + 1]]
          ELSE <<>>)

\* Fonts: a height and a fixed advance per glyph.
SANS_16 == [name |-> "SANS_16", height |-> 16, advance |-> 8]

SANS_20 == [name |-> "SANS_20", height |-> 20, advance |-> 10]

SANS_24 == [name |-> "SANS_24", height |-> 24, advance |-> 12]

\* Font::width
width(font, str) == Len(str) * font.advance

\* Font::draw as a recorded call on the screen.
draw(font, x, y, str, color) ==
  [call |-> "draw", font |-> font.name, x |-> x, y |-> y, str |-> str,
   color |-> color]

\* Screen::fill as a recorded call.
fill(rect, color) == [call |-> "fill", rect |-> rect, color |-> color]

\* Screen::horizontal_pattern as a recorded call.
horizontal_pattern(x, w, y, color) ==
  [call |-> "horizontal_pattern", x |-> x, w |-> w, y |-> y, color |-> color]

Rect(x, y, w, h) == [x |-> x, y |-> y, w |-> w, h |-> h]

(* ---------------------------------------------------------------------- *)
(* render_entry and Stack::render (src/src/stack.rs)                       *)
(* ---------------------------------------------------------------------- *)

\* A step 1 that ignores the format and takes the Number's own text.
primary_string_ignoresFormat(format, ed, value) ==
  IF ed # None THEN editor_to_str(ed[1], format) ELSE to_str(value)

\* `let string = match editor { .. }`: the editor's text, else the value
\* formatted.
primary_string(format, ed, value) ==
  IF ed # None THEN editor_to_str(ed[1], format) ELSE format_number(format, value)

\* `let mut alt_string = match value { .. }`
alt_string_of(format, value) ==
  IF value.tag = "Integer"
    THEN IF format.show_alt_hex /\ (value.num <= 0 - 10 \/ value.num >= 10)
           THEN IF format.integer_radix = 10
                  THEN Some(format_number(hex_format(format), value))
                ELSE IF format.integer_radix = 16
                  THEN Some(format_number(decimal_format(format), value))
                ELSE None
           ELSE None
  ELSE IF value.tag = "Rational"
    THEN IF format.show_alt_float
           THEN Some(format_decimal(decimal_format(format), to_decimal(value)))
           ELSE None
  ELSE None

\* A split that rounds the integer part toward minus infinity.
rational_parts_floor(format, value) ==
  LET int  == value.num \div value.den
      num0 == IF int < 0 THEN (0 - value.num) - (0 - int) * value.den
              ELSE value.num - int * value.den
      num  == IF int = 0 /\ num0 < 0 THEN 0 - num0 ELSE num0
  IN  [int |-> int, num |-> num,
       int_str |-> IF int = 0 THEN (IF num0 < 0 THEN <<"-">> ELSE <<>>)
                   ELSE format_bigint(format, int) \o <<" ">>,
       num_str |-> format_bigint(format, num),
       denom_str |-> format_bigint(format, value.den)]

\* "Break rational into an integer part and fractional part" and the three
\* strings of the fraction layout.
rational_parts(format, value) ==
  LET int  == TruncDiv(value.num, value.den)
      num0 == IF int < 0 THEN (0 - value.num) - (0 - int) * value.den
              ELSE value.num - int * value.den
      num  == IF int = 0 /\ num0 < 0 THEN 0 - num0 ELSE num0
  IN  [int |-> int, num |-> num,
       int_str |-> IF int = 0 THEN (IF num0 < 0 THEN <<"-">> ELSE <<>>)
                   ELSE format_bigint(format, int) \o <<" ">>,
       num_str |-> format_bigint(format, num),
       denom_str |-> format_bigint(format, value.den)]

\* "Find sizes for the parts of the rational"
fraction_widths(parts) ==
  LET int_width   == width(SANS_24, parts.int_str)
      num_width   == width(SANS_20, parts.num_str)
      denom_width == width(SANS_20, parts.denom_str)
      fraction_width == IF num_width >= denom_width THEN num_width ELSE denom_width
  IN  [int_width |-> int_width, num_width |-> num_width,
       denom_width |-> denom_width, fraction_width |-> fraction_width,
       total_width |-> int_width + fraction_width]

\* A width check that always takes the fraction layout.
fraction_fits_always(sizes, w) == TRUE

\* `if total_width <= w`
fraction_fits(sizes, w) == sizes.total_width <= w

\* A fallback that forgets `top = bottom`.
top_after_fraction_noReset(bottom, alt_string, fits) ==
  (bottom - SANS_20.height * 2) - (IF alt_string # None THEN SANS_16.height ELSE 0)

\* `top` of a Rational after the fraction attempt: two SANS_20 rows and the
\* caption row when the layout is drawn, `bottom` again when it is not.
top_after_fraction(bottom, alt_string, fits) ==
  IF fits
    THEN (bottom - SANS_20.height * 2)
           - (IF alt_string # None THEN SANS_16.height ELSE 0)
    ELSE bottom

\* The four calls of the fraction layout: integer part, numerator, rule and
\* denominator, `y` being the top of the layout.
fraction_draws(x, w, y, parts, sizes) ==
  << draw(SANS_24, (x + w) - (sizes.int_width + sizes.fraction_width + 4),
          (y + SANS_20.height) - (SANS_24.height \div 2),
          parts.int_str, "ContentText"),
     draw(SANS_20,
          ((x + w) - (4 + sizes.fraction_width \div 2)) - (sizes.num_width \div 2),
          y, parts.num_str, "ContentText"),
     fill(Rect((x + w) - (sizes.fraction_width + 4), y + SANS_20.height,
               sizes.fraction_width, 1), "ContentText"),
     draw(SANS_20,
          ((x + w) - (4 + sizes.fraction_width \div 2)) - (sizes.denom_width \div 2),
          y + SANS_20.height, parts.denom_str, "ContentText") >>

\* `if !rational { .. }`: the string formatted earlier and, with an editor,
\* the cursor.
plain_draws(ed, x, w, y, string) ==
  << draw(SANS_24, (x + w) - (width(SANS_24, string) + 4), y, string,
          "ContentText") >>
    \o (IF ed # None
          THEN << fill(Rect((x + w) - 3, y, 3, SANS_24.height), "ContentText") >>
          ELSE <<>>)

\* "Render alternate string if there was one"
alt_draws(x, w, y, alt_string) ==
  IF alt_string # None
    THEN << draw(SANS_16, (x + w) - (width(SANS_16, alt_string[1]) + 4), y,
                 alt_string[1], "ContentText") >>
    ELSE <<>>

\* The calls of render_entry once the layout is decided: `rational` tells
\* whether the fraction is drawn, top_y is the final `top` of the band.
entry_draws(ed, x, w, top_y, string, alt_string, parts, sizes, rational) ==
  IF rational
    THEN fraction_draws(x, w, top_y, parts, sizes)
           \o alt_draws(x, w, top_y + SANS_20.height * 2, alt_string)
    ELSE plain_draws(ed, x, w, top_y, string)
           \o alt_draws(x, w, top_y + SANS_24.height, alt_string)

\* `top` at the end of render_entry: a fraction keeps the top of the
\* fraction attempt, any other layout takes one SANS_24 row and the caption
\* row above `top`.
final_top(top1, alt_string, rational) ==
  IF rational THEN top1
  ELSE (top1 - SANS_24.height) - (IF alt_string # None THEN SANS_16.height ELSE 0)

\* render_entry from the point where the string, the caption and the parts
\* of the rational are known.
entry_layout(ed, isRat, x, w, bottom, string, alt0, parts, sizes) ==
  LET rational == isRat /\ fraction_fits(sizes, w)
      alt      == IF isRat /\ ~rational THEN None ELSE alt0
      top1     == IF isRat THEN top_after_fraction(bottom, alt0, rational)
                  ELSE bottom
      top_y    == final_top(top1, alt, rational)
  IN  [height |-> bottom - top_y,
       draws  |-> entry_draws(ed, x, w, top_y, string, alt, parts, sizes,
                              rational)]

\* render_entry: the height it returns and the calls it makes on the screen.
render_entry(format, ed, value, x, w, bottom) ==
  entry_layout(ed, value.tag = "Rational", x, w, bottom,
               primary_string(format, ed, value),
               alt_string_of(format, value),
               rational_parts(format, value),
               fraction_widths(rational_parts(format, value)))

\* `let label = match idx { .. } + ": "`
entry_label(idx) ==
  (IF idx = 0 THEN <<"x">>
   ELSE IF idx = 1 THEN <<"y">>
   ELSE IF idx = 2 THEN <<"z">>
   ELSE to_str(Integer(idx + 1))) \o <<":", " ">>

\* A separator test that also fires for the first entry.
separator_before_every(idx) == TRUE

\* `if idx > 0`: the separator is drawn before entry idx is rendered.
separator_before(idx) == idx > 0

\* A cursor that moves up by one text row whatever the entry took.
next_bottom_fixedRow(bottom, height) == bottom - SANS_24.height

\* `bottom -= height`
next_bottom(bottom, height) == bottom - height

\* One pass of the loop body of Stack::render, `r` being what render_entry
\* returned for entry idx drawn at x with width w, followed by the passes
\* for the entries above it.
RECURSIVE render_loop(_, _, _, _, _)
render_pass(s, format, area, idx, bottom, label, ed, x, w, r) ==
  LET separator ==
        IF separator_before(idx)
          THEN << horizontal_pattern(area.x, area.w, bottom, "StackSeparator") >>
          ELSE <<>>
      label_draw ==
        draw(SANS_16, 4,
             (bottom - r.height) + ((r.height - SANS_16.height) \div 2),
             label, "StackLabelText")
      band == [idx |-> idx, editor |-> ed, value |-> entry(s, idx),
               x |-> x, w |-> w, bottom |-> bottom, height |-> r.height,
               draws |-> r.draws]
      rest == render_loop(s, format, area, idx + 1, next_bottom(bottom, r.height))
  IN  [draws |-> separator \o r.draws \o <<label_draw>> \o rest.draws,
       bands |-> <<band>> \o rest.bands]

\* render_entry for entry idx, whose label is `label_width` wide.
render_at(s, format, area, idx, bottom, label, label_width, ed) ==
  render_pass(s, format, area, idx, bottom, label, ed,
              area.x + label_width, (area.w - label_width) - 4,
              render_entry(format, ed, entry(s, idx), area.x + label_width,
                           (area.w - label_width) - 4, bottom))

\* The loop of Stack::render from logical index idx on, `bottom` being the
\* running cursor: the screen calls in order and, per entry, the
\* render_entry call made for it.
render_loop(s, format, area, idx, bottom) ==
  IF idx >= len(s) THEN [draws |-> <<>>, bands |-> <<>>]
  ELSE render_at(s, format, area, idx, bottom, entry_label(idx),
                 4 + width(SANS_16, entry_label(idx)),
                 IF idx = 0 THEN s.editor ELSE None)

\* Stack::render(screen, format, area)
render(s, format, area) == render_loop(s, format, area, 0, area.y + area.h)

(* ---------------------------------------------------------------------- *)
(* State machine: one Stack driven by its public operations                *)
(* ---------------------------------------------------------------------- *)

VARIABLES
  entries,         \* Stack.entries, oldest first
  editor,          \* Stack.editor
  push_new_entry,  \* Stack.push_new_entry
  ret,             \* Some(value returned by the last call) or None
  trace,           \* the mutating calls made since Stack::new(), oldest first
  out,             \* what the last read-only call (entry, render) produced
  draining         \* TRUE once the user only repeats backspace

vars == <<entries, editor, push_new_entry, ret, trace, out, draining>>

\* No read-only call has been made since the last mutating call.
NoOut == [call |-> "none"]

\* The struct as a value.
Self == [entries |-> entries, editor |-> editor, push_new_entry |-> push_new_entry]

\* The struct after the next step.
SelfNext == [entries |-> entries', editor |-> editor', push_new_entry |-> push_new_entry']

\* Numbers the callers hand to push.
PushNums == {Integer(3), Integer(5), Decimal(0)}

\* Numbers the callers hand to set_top.
SetTopNums == {Integer(7)}

\* Numbers the callers hand to replace_entries.
ReplaceNums == {Integer(8)}

\* Keys forwarded to push_char.
Keys == {"1", "2", "3", "5"}

Last(seq) == seq[Len(seq)]

\* The call that produced the current state, if any.
After(name) == trace # <<>> /\ Last(trace).op = name

\* Store the struct `s`, the returned value and the call.
Commit(s, result, call) ==
  /\ entries' = s.entries
  /\ editor' = s.editor
  /\ push_new_entry' = s.push_new_entry
  /\ ret' = result
  /\ trace' = Append(trace, call)
  /\ out' = NoOut
  /\ ~draining
  /\ draining' = draining

Init ==
  /\ entries = new.entries
  /\ editor = new.editor
  /\ push_new_entry = new.push_new_entry
  /\ ret = None
  /\ trace = <<>>
  /\ out = NoOut
  /\ draining = FALSE

Push ==
  /\ Len(trace) < MaxSteps
  /\ \E num \in PushNums :
       Commit(push(Self, num), None, [op |-> "push", num |-> num])

SetTop ==
  /\ Len(trace) < MaxSteps
  /\ \E num \in SetTopNums :
       Commit(set_top(Self, num), None, [op |-> "set_top", num |-> num])

ReplaceEntries ==
  /\ Len(trace) < MaxSteps
  /\ \E count \in 0..MaxCount, num \in ReplaceNums :
       Commit(replace_entries(Self, count, num), None,
              [op |-> "replace_entries", count |-> count, num |-> num])

Pop ==
  /\ Len(trace) < MaxSteps
  /\ Commit(pop(Self).stack, Some(pop(Self).result), [op |-> "pop"])

Enter ==
  /\ Len(trace) < MaxSteps
  /\ Commit(enter(Self), None, [op |-> "enter"])

PushChar ==
  /\ Len(trace) < MaxSteps
  /\ \E ch \in Keys :
       Commit(push_char(Self, ch), None, [op |-> "push_char", ch |-> ch])

Exponent ==
  /\ Len(trace) < MaxSteps
  /\ Commit(exponent(Self), None, [op |-> "exponent"])

Backspace ==
  /\ Len(trace) < MaxSteps
  /\ Commit(backspace(Self), None, [op |-> "backspace"])

Neg ==
  /\ Len(trace) < MaxSteps
  /\ Commit(neg(Self), None, [op |-> "neg"])

Next ==
  \/ Push
  \/ SetTop
  \/ ReplaceEntries
  \/ Pop
  \/ Enter
  \/ PushChar
  \/ Exponent
  \/ Backspace
  \/ Neg

Spec == Init /\ [][Next]_vars

(* ---------------------------------------------------------------------- *)
(* Reading an entry at any index                                           *)
(* ---------------------------------------------------------------------- *)

\* Largest logical index handed to entry.
MaxIdx == 5

\* A caller reads entry(idx); the stack is left as it is. The build either
\* checks integer overflow (debug) or not (release).
EntryCall ==
  /\ ~draining
  /\ \E idx \in 0..MaxIdx, overflow_checks \in BOOLEAN :
       out' = [call |-> "entry", idx |-> idx, overflow_checks |-> overflow_checks,
               result |-> entry_call(Self, idx, overflow_checks)]
  /\ UNCHANGED <<entries, editor, push_new_entry, ret, trace, draining>>

NextEntry ==
  \/ Push
  \/ Pop
  \/ PushChar
  \/ EntryCall

SpecEntry == Init /\ [][NextEntry]_vars

(* ---------------------------------------------------------------------- *)
(* Rendering a stack                                                       *)
(* ---------------------------------------------------------------------- *)

\* Number of values pushed on the stack that is rendered.
MaxShown == 2

\* Values pushed before rendering.
RenderNums ==
  {Rational(7, 2), Rational(0 - 7, 2), Rational(0 - 1, 2), Rational(1, 3),
   Rational(100, 3), Integer(12), Decimal(5)}

\* Keys typed after the pushes, in this order.
TypedKeys == <<"1", "2">>

\* Display formats.
Formats ==
  [integer_radix : {10, 16}, show_alt_hex : BOOLEAN, show_alt_float : BOOLEAN]

\* Display rectangles: three widths, one narrower than every fraction.
Areas == {Rect(0, 0, 52, 200), Rect(0, 0, 72, 200), Rect(0, 0, 100, 200)}

\* Number of calls of the operation `name` so far.
Count(name) == Cardinality({i \in 1..Len(trace) : trace[i].op = name})

\* Stack::push of a value to show.
PushShown ==
  /\ out = NoOut
  /\ Count("push_char") = 0
  /\ Count("push") < MaxShown
  /\ \E num \in RenderNums :
       Commit(push(Self, num), None, [op |-> "push", num |-> num])

\* Stack::push_char of the next key.
TypeShown ==
  /\ out = NoOut
  /\ Count("push_char") < Len(TypedKeys)
  /\ LET ch == TypedKeys[Count("push_char") + 1]
     IN  Commit(push_char(Self, ch), None, [op |-> "push_char", ch |-> ch])

\* The redraw pass that follows the input events: Stack::render into
\* `area` under `format`, once per stack.
Render ==
  /\ ~draining
  /\ out = NoOut
  /\ \E format \in Formats, area \in Areas :
       LET r == render(Self, format, area)
       IN  out' = [call |-> "render", format |-> format, area |-> area,
                   draws |-> r.draws, bands |-> r.bands]
  /\ UNCHANGED <<entries, editor, push_new_entry, ret, trace, draining>>

NextRender ==
  \/ PushShown
  \/ TypeShown
  \/ Render

SpecRender == Init /\ [][NextRender]_vars

(* ---------------------------------------------------------------------- *)
(* Repeating backspace                                                     *)
(* ---------------------------------------------------------------------- *)

\* From some point on the user presses nothing but backspace.
Drain ==
  /\ entries' = backspace(Self).entries
  /\ editor' = backspace(Self).editor
  /\ push_new_entry' = backspace(Self).push_new_entry
  /\ draining' = TRUE
  /\ out' = NoOut
  /\ UNCHANGED <<ret, trace>>

NextDrain ==
  \/ Push
  \/ Enter
  \/ PushChar
  \/ Exponent
  \/ Drain

\* The backspace key keeps being pressed: a Drain step that would change the
\* state is eventually taken.
SpecDrain == Init /\ [][NextDrain]_vars /\ WF_vars(Drain)

(* ---------------------------------------------------------------------- *)
(* Properties                                                              *)
(* ---------------------------------------------------------------------- *)

Max(a, b) == IF a >= b THEN a ELSE b

\* The step just taken is a call of `name`.
Calls(name) == trace' # trace /\ Last(trace').op = name

\* C1: in every reachable state the stack holds at least one entry.
C1_LenAtLeastOne == len(Self) >= 1

\* C1 witness: two pops in a row on the fresh stack, the floor still holds.
C1_Witness ==
  /\ Len(trace) = 2
  /\ trace[1].op = "pop"
  /\ trace[2].op = "pop"
  /\ len(Self) = 1

\* The calls push(5), push(3), replace_entries(2, 8) on a fresh stack.
Scenario_PushPushReplace ==
  << [op |-> "push", num |-> Integer(5)],
     [op |-> "push", num |-> Integer(3)],
     [op |-> "replace_entries", count |-> 2, num |-> Integer(8)] >>

\* C2 as stated: after push(5), push(3), replace_entries(2, 8) on a fresh
\* stack the stack has length 1 and its entry 0 is 8.
C2_AsStated ==
  trace = Scenario_PushPushReplace =>
    len(Self) = 1 /\ entry(Self, 0) = Integer(8)

\* C2 amended: after push(5), push(3), replace_entries(2, 8) on a fresh
\* stack the stack has length 2: entry 0 is 8 and entry 1 is the initial 0.
C2_ReplaceScenario ==
  trace = Scenario_PushPushReplace =>
    /\ len(Self) = 2
    /\ entry(Self, 0) = Integer(8)
    /\ entry(Self, 1) = Integer(0)

\* C2 witness: the scenario has run.
C2_Witness == trace = Scenario_PushPushReplace /\ top(Self) = Integer(8)

\* The keys "1", "2", "3" typed on a fresh stack.
Scenario_Type123 ==
  << [op |-> "push_char", ch |-> "1"],
     [op |-> "push_char", ch |-> "2"],
     [op |-> "push_char", ch |-> "3"] >>

\* C3 as stated: typing 1, 2, 3 on a fresh stack gives top 123 and a second
\* entry, the initial zero sitting at logical index 1.
C3_AsStated ==
  trace = Scenario_Type123 =>
    /\ top(Self) = Integer(123)
    /\ len(Self) = 2
    /\ entry(Self, 1) = Integer(0)

\* C3 amended: typing 1, 2, 3 on a fresh stack gives top 123 and adds no
\* entry: the digits overwrite the initial zero and len() stays 1.
C3_Type123 ==
  trace = Scenario_Type123 =>
    /\ top(Self) = Integer(123)
    /\ len(Self) = 1

\* C3 witness: the three keys have been typed and the editor is live.
C3_Witness == trace = Scenario_Type123 /\ editor # None

\* C4: pop on a one-entry stack returns the old top and leaves exactly one
\* Integer zero; pop on a longer stack returns the old entry(0) and shortens
\* the stack by exactly one.
C4_Pop ==
  [][ Calls("pop") =>
        /\ ret' = Some(entry(Self, 0))
        /\ len(Self) = 1 => entries' = <<Integer(0)>>
        /\ len(Self) > 1 => len(SelfNext) = len(Self) - 1 ]_vars

\* C4 witness: a pop of a one-entry stack returned a value that is not the
\* zero now on the stack.
C4_Witness ==
  /\ After("pop")
  /\ entries = <<Integer(0)>>
  /\ ret # None
  /\ ret # Some(Integer(0))

\* C5: enter adds one entry equal to the old top and leaves push_new_entry
\* false; a push_char right after enter keeps len() and every entry below
\* the top, and overwrites the duplicate with the typed digit.
C5_Enter ==
  [][ /\ Calls("enter") =>
           /\ len(SelfNext) = len(Self) + 1
           /\ entry(SelfNext, 0) = entry(SelfNext, 1)
           /\ entry(SelfNext, 0) = entry(Self, 0)
           /\ push_new_entry' = FALSE
      /\ (After("enter") /\ Calls("push_char")) =>
           /\ len(SelfNext) = len(Self)
           /\ \A i \in 1..(len(Self) - 1) : entry(SelfNext, i) = entry(Self, i)
           /\ entry(SelfNext, 0) = Integer(DigitOf(Last(trace').ch)) ]_vars

\* C5 witness: a digit typed right after enter replaced the duplicate.
C5_Witness ==
  /\ Len(trace) >= 2
  /\ trace[Len(trace) - 1].op = "enter"
  /\ After("push_char")
  /\ len(Self) >= 2
  /\ entry(Self, 0) # entry(Self, 1)

\* The entries below the top are the same before and after the step.
BelowTopUnchanged ==
  \A i \in 1..(len(Self) - 1) : entry(SelfNext, i) = entry(Self, i)

\* C6: when backspace empties the active editor, the top becomes Integer
\* zero, push_new_entry becomes false and len() is unchanged; the push_char
\* that follows edits that same slot: len() and the entries below the top
\* are unchanged and an editor is active again.
C6_BackspaceExhausted ==
  [][ /\ (Calls("backspace") /\ editor # None
            /\ ~editor_backspace(editor[1]).ok) =>
           /\ top(SelfNext) = Integer(0)
           /\ push_new_entry' = FALSE
           /\ len(SelfNext) = len(Self)
           /\ BelowTopUnchanged
      /\ (After("backspace") /\ editor = None /\ ~push_new_entry
            /\ Calls("push_char")) =>
           /\ len(SelfNext) = len(Self)
           /\ BelowTopUnchanged
           /\ editor' # None ]_vars

\* C6 witness: "5" typed on a fresh stack, one backspace, one more digit:
\* still a single entry, being edited.
C6_Witness ==
  /\ Len(trace) = 3
  /\ trace[1] = [op |-> "push_char", ch |-> "5"]
  /\ trace[2].op = "backspace"
  /\ trace[3].op = "push_char"
  /\ len(Self) = 1
  /\ editor # None

\* The calls set_top(7), neg() on a fresh stack: the stack [7] negated once.
Scenario_Neg7 ==
  << [op |-> "set_top", num |-> Integer(7)], [op |-> "neg"] >>

\* C7: with no editor, neg replaces the top v by -v (same variant) and
\* changes neither len() nor any other entry; a second neg restores v.
\* On the stack [7]: 7 -> -7 -> 7.
C7_Neg ==
  /\ [][ (Calls("neg") /\ editor = None) =>
           /\ top(SelfNext).tag = top(Self).tag
           /\ top(SelfNext).den = top(Self).den
           /\ top(SelfNext).num + top(Self).num = 0
           /\ len(SelfNext) = len(Self)
           /\ BelowTopUnchanged
           /\ editor' = None
           /\ neg(SelfNext).entries = entries ]_vars
  /\ [](trace = Scenario_Neg7 => entries = <<Integer(0 - 7)>>)
  /\ [](trace = Append(Scenario_Neg7, [op |-> "neg"]) => entries = <<Integer(7)>>)

\* C7 witness: the stack [7] negated twice is [7] again, no editor involved.
C7_Witness ==
  /\ trace = Append(Scenario_Neg7, [op |-> "neg"])
  /\ entries = <<Integer(7)>>
  /\ editor = None

\* C8: right after push, set_top, replace_entries or pop, push_new_entry is
\* true and there is no editor, whatever the state before the call.
C8_FlagAndEditorReset ==
  (After("push") \/ After("set_top") \/ After("replace_entries") \/ After("pop"))
    => (push_new_entry = TRUE /\ editor = None)

\* C8 witness: set_top called while a digit was being typed.
C8_Witness ==
  /\ Len(trace) >= 2
  /\ trace[Len(trace) - 1].op = "push_char"
  /\ After("set_top")
  /\ editor = None

\* C9: backspace with no editor pops the top (reinserting Integer zero when
\* the stack empties) and sets push_new_entry to: more than one entry before
\* the call, and the new top is not an Integer zero.
C9_BackspaceNoEditor ==
  [][ (Calls("backspace") /\ editor = None) =>
        /\ entries' = IF len(Self) = 1 THEN <<Integer(0)>>
                      ELSE SubSeq(entries, 1, len(Self) - 1)
        /\ editor' = None
        /\ push_new_entry' =
             (len(Self) > 1 /\
              ~(top(SelfNext).tag = "Integer" /\ top(SelfNext).num = 0)) ]_vars

\* C9 witness: backspace exposed a Decimal zero and the flag is set.
C9_Witness ==
  /\ After("backspace")
  /\ top(Self).tag = "Decimal"
  /\ top(Self).num = 0
  /\ push_new_entry = TRUE

\* C10: replace_entries(count, v) on a stack of n entries leaves
\* max(1, n - max(count - 1, 0)) entries with v on top; when
\* 1 <= count <= n each old entry i >= count is now entry i - count + 1.
C10_ReplaceEntries ==
  [][ Calls("replace_entries") =>
        LET n == len(Self)
            count == Last(trace').count
            v == Last(trace').num
        IN  /\ len(SelfNext) = Max(1, n - Max(count - 1, 0))
            /\ entry(SelfNext, 0) = v
            /\ (1 <= count /\ count <= n) =>
                 \A i \in count..(n - 1) :
                   entry(SelfNext, (i - count) + 1) = entry(Self, i) ]_vars

\* C10 witness: replace_entries(2, v) collapsed a three-entry stack to two,
\* the oldest entry moving from index 2 to index 1.
C10_Witness ==
  /\ Len(trace) = 3
  /\ trace[1].op = "push"
  /\ trace[2].op = "push"
  /\ After("replace_entries")
  /\ Last(trace).count = 2
  /\ len(Self) = 2
  /\ entry(Self, 1) = Integer(0)

\* C11: push_char with no editor and the flag set adds exactly one entry and
\* keeps every previous entry; with no editor and the flag clear, or with an
\* editor already active, it keeps len() and every entry below the top. In
\* all three cases an editor is active and the flag is clear afterwards.
C11_PushCharFrame ==
  [][ Calls("push_char") =>
        /\ (editor = None /\ push_new_entry) =>
             /\ len(SelfNext) = len(Self) + 1
             /\ \A i \in 0..(len(Self) - 1) :
                  entry(SelfNext, i + 1) = entry(Self, i)
        /\ (editor = None /\ ~push_new_entry) =>
             /\ len(SelfNext) = len(Self)
             /\ BelowTopUnchanged
        /\ editor # None =>
             /\ len(SelfNext) = len(Self)
             /\ BelowTopUnchanged
        /\ editor' # None
        /\ push_new_entry' = FALSE ]_vars

\* C11 witness: a digit typed after push(5) opened a new slot above the 5.
C11_Witness ==
  /\ Len(trace) >= 2
  /\ trace[Len(trace) - 1] = [op |-> "push", num |-> Integer(5)]
  /\ After("push_char")
  /\ len(Self) >= 3
  /\ entry(Self, 1) = Integer(5)
  /\ editor # None

\* C19: an active editor implies that push_new_entry is false.
C19_EditorImpliesFlagClear == editor # None => push_new_entry = FALSE

\* C19 witness: a digit typed right after a push, which had set the flag.
C19_Witness ==
  /\ Len(trace) >= 2
  /\ trace[Len(trace) - 1].op = "push"
  /\ After("push_char")
  /\ editor # None
  /\ push_new_entry = FALSE

\* The step just taken is a read-only call of `name`.
Reads(name) == out' # out /\ out'.call = name

\* C12: entry(i) with i < len() returns the value at storage position
\* len()-1-i, so push(v) makes v entry 0 and moves each entry i to i+1;
\* entry(i) with i >= len() panics, in either build, and returns nothing.
C12_EntryIndexing ==
  [][ /\ Reads("entry") =>
           LET idx == out'.idx
           IN  /\ idx < len(Self) =>
                    out'.result = Returned(entries[(len(Self) - 1 - idx) + 1])
               /\ idx >= len(Self) => out'.result.panic = TRUE
      /\ Calls("push") =>
           /\ entry(SelfNext, 0) = Last(trace').num
           /\ \A i \in 0..(len(Self) - 1) :
                entry(SelfNext, i + 1) = entry(Self, i) ]_vars

\* C12 witness: entry(len()) on a stack of two entries panicked in the build
\* without overflow checks.
C12_Witness ==
  /\ out.call = "entry"
  /\ len(Self) = 2
  /\ out.idx = 2
  /\ out.overflow_checks = FALSE
  /\ out.result.panic = TRUE

\* One Integer zero, no editor, flag clear.
AtFloor ==
  /\ entries = <<Integer(0)>>
  /\ editor = None
  /\ push_new_entry = FALSE

\* C20: once only backspace is pressed, the stack eventually is a single
\* Integer zero with no editor and the flag clear, and stays so: that state
\* is a fixed point of backspace.
C20_BackspaceDrains ==
  /\ <>[](draining /\ AtFloor)
  /\ [](AtFloor => backspace(Self) = Self)

\* C20 witness: the floor reached by backspaces from a stack that held three
\* entries, the top one mid-edit.
C20_Witness ==
  /\ draining
  /\ AtFloor
  /\ Len(trace) = 3
  /\ trace[1].op = "push"
  /\ trace[2].op = "push_char"
  /\ trace[3].op = "push_char"

\* The last read-only call was a render.
Rendered == out.call = "render"

\* The render_entry calls of the last render.
Bands == {out.bands[i] : i \in 1..Len(out.bands)}

\* The band's draw calls that belong to the fraction layout: the SANS_20
\* numerator and denominator and the one-pixel rule.
FractionGlyphs(band) ==
  {i \in 1..Len(band.draws) :
     \/ (band.draws[i].call = "draw" /\ band.draws[i].font = "SANS_20")
     \/ (band.draws[i].call = "fill" /\ band.draws[i].rect.h = 1)}

\* The band's caption draws (small glyphs).
Captions(band) ==
  {i \in 1..Len(band.draws) :
     band.draws[i].call = "draw" /\ band.draws[i].font = "SANS_16"}

\* Width of the fraction layout of a Rational band, computed from the value:
\* integer-part glyphs plus the wider of numerator and denominator.
LayoutWidth(format, value) ==
  LET q  == TruncDiv(value.num, value.den)
      r  == Abs(value.num) - Abs(q) * value.den
      is == IF q = 0 THEN (IF value.num < 0 THEN <<"-">> ELSE <<>>)
            ELSE format_bigint(format, q) \o <<" ">>
  IN  Len(is) * SANS_24.advance
        + Max(Len(format_bigint(format, r)), Len(format_bigint(format, value.den)))
            * SANS_20.advance

\* C13: a Rational whose fraction layout is wider than the band draws no
\* fraction glyph and no caption, whatever the alternate-float option; one
\* that fits draws the integer part, numerator, rule and denominator; an
\* Integer or Decimal never draws fraction glyphs.
C13_FractionOnlyWhenItFits ==
  Rendered =>
    \A band \in Bands :
      /\ (band.value.tag = "Rational"
            /\ LayoutWidth(out.format, band.value) > band.w) =>
           (FractionGlyphs(band) = {} /\ Captions(band) = {})
      /\ (band.value.tag = "Rational"
            /\ LayoutWidth(out.format, band.value) <= band.w) =>
           (Cardinality(FractionGlyphs(band)) = 3
              /\ band.draws[1].font = "SANS_24")
      /\ band.value.tag # "Rational" => FractionGlyphs(band) = {}

\* C13 witness: with the alternate-float option on, one render shows a
\* Rational too wide for the band and another Rational drawn as a fraction.
C13_Witness ==
  /\ Rendered
  /\ out.format.show_alt_float
  /\ \E band \in Bands :
       /\ band.value.tag = "Rational"
       /\ LayoutWidth(out.format, band.value) > band.w
       /\ FractionGlyphs(band) = {}
  /\ \E band \in Bands :
       /\ band.value.tag = "Rational"
       /\ Cardinality(FractionGlyphs(band)) = 3

\* A Rational band whose fraction layout was abandoned for width.
WidthFallback(band) ==
  /\ band.value.tag = "Rational"
  /\ LayoutWidth(out.format, band.value) > band.w

\* The large-glyph text draws of a band.
LargeText(band) ==
  {i \in 1..Len(band.draws) :
     band.draws[i].call = "draw" /\ band.draws[i].font = "SANS_24"}

\* The value's plain decimal string: its decimal conversion written in
\* decimal, as the alternate caption of a Rational is.
PlainDecimal(format, value) ==
  format_decimal(decimal_format(format), to_decimal(value))

FractionDrawn(band) == FractionGlyphs(band) # {}

CaptionDrawn(band) == Captions(band) # {}

\* C15 as stated: the height returned is the large-glyph height (twice the
\* large-glyph height for a fraction layout) plus the small-glyph height
\* exactly when a caption was drawn.
C15_AsStated ==
  Rendered =>
    \A band \in Bands :
      band.height =
        (IF FractionDrawn(band) THEN 2 * SANS_24.height ELSE SANS_24.height)
          + (IF CaptionDrawn(band) THEN SANS_16.height ELSE 0)

\* C15, amended: the height returned is the large-glyph height for a
\* non-fraction layout and twice the medium-glyph height (the two SANS_20
\* rows of numerator and denominator) for a fraction layout, plus the
\* small-glyph height exactly when a caption was drawn; after a width
\* fallback it is the large-glyph height alone.
C15_ReturnedHeight ==
  Rendered =>
    \A band \in Bands :
      /\ band.height =
           (IF FractionDrawn(band) THEN 2 * SANS_20.height ELSE SANS_24.height)
             + (IF CaptionDrawn(band) THEN SANS_16.height ELSE 0)
      /\ WidthFallback(band) => band.height = SANS_24.height

\* C15 witness: with the alternate-float option on, one render returns the
\* height of a fraction with its caption for one Rational and the height
\* of a single large-glyph row for another that did not fit.
C15_Witness ==
  /\ Rendered
  /\ out.format.show_alt_float
  /\ \E band \in Bands :
       /\ FractionDrawn(band) /\ CaptionDrawn(band)
       /\ band.height = 2 * SANS_20.height + SANS_16.height
  /\ \E band \in Bands :
       /\ WidthFallback(band)
       /\ band.height = SANS_24.height

\* The separator calls of the last render.
Separators ==
  {i \in 1..Len(out.draws) : out.draws[i].call = "horizontal_pattern"}

\* Whether a separator is drawn at height y.
SeparatorAt(y) == \E i \in Separators : out.draws[i].y = y

\* The edges of a band: it covers bottom - height .. bottom, y growing
\* downward.
UpperEdge(band) == band.bottom - band.height

LowerEdge(band) == band.bottom

\* C16 as stated: a separator at the upper edge of the band of every entry
\* i > 0, none at the upper edge of entry 0's band, len() - 1 in total.
C16_AsStated ==
  Rendered =>
    /\ \A band \in Bands :
         (band.idx > 0) <=> SeparatorAt(UpperEdge(band))
    /\ Cardinality(Separators) = len(Self) - 1

\* C16, amended: for every logical index i > 0 one separator is drawn at
\* the lower edge of entry i's band, the line it shares with entry i - 1
\* below it, before entry i is rendered; none is drawn at the lower edge of
\* entry 0's band nor above the last entry; exactly len() - 1 separators
\* are drawn in total.
C16_Separators ==
  Rendered =>
    /\ \A band \in Bands :
         (band.idx > 0) <=> SeparatorAt(LowerEdge(band))
    /\ \A band \in Bands :
         band.idx = len(Self) - 1 => ~SeparatorAt(UpperEdge(band))
    /\ \A i \in Separators :
         /\ out.draws[i].x = out.area.x
         /\ out.draws[i].w = out.area.w
    /\ Cardinality(Separators) = len(Self) - 1

\* C16 witness: a stack of three entries is rendered with two separators,
\* one of them at the upper edge of entry 0's band.
C16_Witness ==
  /\ Rendered
  /\ len(Self) = 3
  /\ Cardinality(Separators) = 2
  /\ \E band \in Bands : band.idx = 0 /\ SeparatorAt(UpperEdge(band))

\* C17: the cursor of Stack::render starts at area.y + area.h and after
\* each entry moves up by exactly the height render_entry returned for it;
\* entries are rendered in increasing logical index, the most recent at the
\* bottom, and the bands of two entries never overlap.
C17_BottomCursor ==
  Rendered =>
    /\ Len(out.bands) = len(Self)
    /\ out.bands[1].bottom = out.area.y + out.area.h
    /\ \A i \in 1..Len(out.bands) :
         /\ out.bands[i].idx = i - 1
         /\ out.bands[i].value = entry(Self, i - 1)
         /\ out.bands[i].height > 0
    /\ \A i \in 1..(Len(out.bands) - 1) :
         out.bands[i + 1].bottom = out.bands[i].bottom - out.bands[i].height
    /\ \A a, b \in Bands :
         a.idx < b.idx => LowerEdge(b) <= UpperEdge(a)

\* C17 witness: three entries of two different heights are rendered, the
\* third band lying above the first two.
C17_Witness ==
  /\ Rendered
  /\ Len(out.bands) = 3
  /\ out.bands[1].height # out.bands[2].height
  /\ out.bands[3].bottom =
       (out.area.y + out.area.h) - (out.bands[1].height + out.bands[2].height)

\* The integer part q and numerator r shown for num/denom, stated from the
\* value alone: |num| = |q| * denom + r with 0 <= r < denom, q carrying the
\* sign of num (the quotient truncated toward zero).
IsTruncatedSplit(value, q, r) ==
  /\ r >= 0
  /\ r < value.den
  /\ Abs(value.num) = Abs(q) * value.den + r
  /\ (value.num >= 0 => q >= 0)
  /\ (value.num < 0 => q <= 0)

\* C18: a Rational num/denom (denom > 0) drawn in fraction layout shows the
\* integer part num/denom truncated toward zero, a numerator r with
\* 0 <= r < denom and |num| = |int| * denom + r, and the denominator; a zero
\* integer part is shown as "-" when the value is negative and as the empty
\* string when it is not, never as "0" or "-0".
C18_RationalDecomposition ==
  Rendered =>
    \A band \in Bands :
      (band.value.tag = "Rational" /\ FractionDrawn(band)) =>
        /\ band.value.den > 0
        /\ \E m \in 0..Abs(band.value.num), r \in 0..(band.value.den - 1) :
             LET q == IF band.value.num < 0 THEN 0 - m ELSE m
             IN  /\ IsTruncatedSplit(band.value, q, r)
                 /\ band.draws[1].str =
                      (IF q # 0 THEN format_bigint(out.format, q) \o <<" ">>
                       ELSE IF band.value.num < 0 THEN <<"-">>
                       ELSE <<>>)
                 /\ band.draws[2].str = format_bigint(out.format, r)
        /\ band.draws[4].str = format_bigint(out.format, band.value.den)
        /\ band.draws[1].str \notin {<<"0">>, <<"-", "0">>, <<"0", " ">>,
                                     <<"-", "0", " ">>}

\* C18 witness: -1/2 is drawn as "-" beside 1 over 2 and -7/2 as "-3 "
\* beside 1 over 2 in the same render.
C18_Witness ==
  /\ Rendered
  /\ \E band \in Bands :
       /\ band.value = Rational(0 - 1, 2)
       /\ FractionDrawn(band)
       /\ band.draws[1].str = <<"-">>
       /\ band.draws[2].str = <<"1">>
  /\ \E band \in Bands :
       /\ band.value = Rational(0 - 7, 2)
       /\ FractionDrawn(band)
       /\ band.draws[1].str = <<"-", "3", " ">>
       /\ band.draws[2].str = <<"1">>
       /\ band.draws[4].str = <<"2">>

====
